---- MODULE Spec2Model ----
(***************************************************************************)
(* A model of the football career bot (src/bot.py): the season calendar    *)
(* generator (create_calendar, create_player_calendar) and the match       *)
(* session state machine driven by the callback handlers.                  *)
(*                                                                         *)
(* Club names are transliterated; a fixture is the tuple                   *)
(* <<home_team, away_team, round_number>> of the source.                   *)
(***************************************************************************)
EXTENDS Integers, Sequences, FiniteSets, TLC

VARIABLES
    clubs,      \* create_calendar: the configured club list (keys of FNL_SILVER_CLUBS)
    calendar,   \* MATCH_CALENDAR, << >> until create_calendar has run
    calpc,      \* "config" before create_calendar has run, "built" after
    pclub,      \* the club create_player_calendar was last called for ("" = none)
    pcal,       \* the personal calendar it returned
    qround,     \* the round get_opponent_by_round was last asked for (0 = none)
    qopp,       \* the opponent it returned
    fsm_state,  \* the user's FSM state: None or GameStates.playing
    data,       \* the user's FSM data: the top-level keys the handlers read
    heap,       \* the match_state dictionaries, by reference
    player,     \* the user's row of the players table
    inflight,   \* the callback handlers suspended between entry and resolution
    last,       \* history: the last callback delivered and the answer it got
    nActions,   \* history: the user actions accepted in the current session
    starts,     \* history: the sessions started so far
    counting    \* history: whether nActions is kept in this behaviour

calvars == <<clubs, calendar, calpc, pclub, pcal, qround, qopp>>

botvars == <<fsm_state, data, heap, player, inflight, last, nActions, starts, counting>>

vars == <<clubs, calendar, calpc, pclub, pcal, qround, qopp,
          fsm_state, data, heap, player, inflight, last, nActions, starts, counting>>

-----------------------------------------------------------------------------
(* Configuration data                                                      *)

\* The keys of FNL_SILVER_CLUBS, in insertion order.
FNL_SILVER_CLUBS ==
    << "Tekstilshchik", "Sibir", "Avangard-Kursk", "Dinamo-Kirov",
       "Dinamo-Vladivostok", "Dinamo-2 Moskva", "Irtysh Omsk", "Kaluga",
       "Forte", "Murom" >>

\* The keys of FNL_GOLD_CLUBS, in insertion order.
FNL_GOLD_CLUBS ==
    << "Spartak Ks", "Volga Ul", "Leningradets", "Volgar", "Chelyabinsk",
       "Rodina-2", "Mashuk-KMV", "Veles", "Kuban", "Torpedo Miass" >>

\* The synthetic club added to an odd club list.
Bye == "Vyhodnoy"

\* total_rounds = 18, the length of a season.
TotalRounds == 18

\* The cap on rounds_per_circle ("if rounds_per_circle > 9: rounds_per_circle = 9").
MaxRoundsPerCircle == 9

\* The largest club list the calendar generator is run on in this model.
MaxClubs == 11

\* Club lists of every size 2..MaxClubs: the Silver clubs, cut short or
\* extended by Gold clubs.
ClubPool == FNL_SILVER_CLUBS \o FNL_GOLD_CLUBS

ClubLists == { [k \in 1..n |-> ClubPool[k]] : n \in 2..MaxClubs }

-----------------------------------------------------------------------------
(* create_calendar                                                         *)

\* all_clubs after the bye club has been appended to an odd list.
WithBye(all_clubs) ==
    IF Len(all_clubs) % 2 # 0 THEN Append(all_clubs, Bye) ELSE all_clubs

\* rounds_per_circle = total_clubs - 1, capped at 9.
RoundsPerCircle(total_clubs) ==
    IF total_clubs - 1 > MaxRoundsPerCircle THEN MaxRoundsPerCircle
    ELSE total_clubs - 1

\* A mutant of Rotate: the list is not rotated.
Rotate_Stuck(teams) == teams

\* teams = [teams[0]] + [teams[-1]] + teams[1:-1]
Rotate(teams) ==
    <<teams[1], teams[Len(teams)]>> \o SubSeq(teams, 2, Len(teams) - 1)

\* The fixture of pair i (0-based) in round round_num, << >> when it involves
\* the bye club.
PairFixture(teams, i, round_num) ==
    LET total_clubs == Len(teams)
        home_team == teams[i + 1]
        away_team == teams[total_clubs - i]
    IN  IF home_team # Bye /\ away_team # Bye
        THEN IF round_num % 2 = 1
             THEN << <<home_team, away_team, round_num>> >>
             ELSE << <<away_team, home_team, round_num>> >>
        ELSE << >>

RECURSIVE RoundMatchesFrom(_, _, _)
RoundMatchesFrom(teams, i, round_num) ==
    IF i >= Len(teams) \div 2 THEN << >>
    ELSE PairFixture(teams, i, round_num) \o RoundMatchesFrom(teams, i + 1, round_num)

\* round_matches of one round: the inner loop over i in range(total_clubs // 2).
RoundMatches(teams, round_num) == RoundMatchesFrom(teams, 0, round_num)

\* The outer loop: rounds round_num..rounds_per_circle, rotating after each.
RECURSIVE FirstCircleFrom(_, _, _)
FirstCircleFrom(teams, round_num, rounds_per_circle) ==
    IF round_num > rounds_per_circle THEN << >>
    ELSE RoundMatches(teams, round_num)
         \o FirstCircleFrom(Rotate(teams), round_num + 1, rounds_per_circle)

\* A mutant of SecondCircle: the round numbers are not offset.
SecondCircle_NoOffset(first, rounds_per_circle) ==
    [k \in 1..Len(first) |-> <<first[k][2], first[k][1], first[k][3]>>]

\* The second circle: home and away swapped, round + rounds_per_circle.
SecondCircle(first, rounds_per_circle) ==
    [k \in 1..Len(first) |->
        <<first[k][2], first[k][1], first[k][3] + rounds_per_circle>>]

\* The place of list[k] after a stable sort by round: after every fixture of
\* an earlier round and every earlier fixture of the same round.
PlaceByRound(list, k) ==
    1 + Cardinality({ j \in 1..Len(list) :
                        \/ list[j][3] < list[k][3]
                        \/ list[j][3] = list[k][3] /\ j < k })

\* calendar.sort(key=lambda match: match[2]); list.sort is stable.
SortByRound(list) ==
    [p \in 1..Len(list) |->
        list[CHOOSE k \in 1..Len(list) : PlaceByRound(list, k) = p]]

create_calendar(club_list) ==
    LET all_clubs == WithBye(club_list)
        total_clubs == Len(all_clubs)
        rounds_per_circle == RoundsPerCircle(total_clubs)
        first == FirstCircleFrom(all_clubs, 1, rounds_per_circle)
    IN  SortByRound(first \o SecondCircle(first, rounds_per_circle))

-----------------------------------------------------------------------------
(* create_player_calendar                                                  *)

\* A mutant of PlayerEntry: the club is taken for the home side.
PlayerEntry_AsHome(m, club_name) ==
    [round |-> m[3], opponent |-> m[2], is_home |-> TRUE]

\* One entry of the personal calendar for a fixture the club takes part in.
PlayerEntry(m, club_name) ==
    [round    |-> m[3],
     opponent |-> IF m[1] = club_name THEN m[2] ELSE m[1],
     is_home  |-> m[1] = club_name]

\* The fixtures of the global calendar the club takes part in, in calendar
\* order, as personal calendar entries.
PlayerFixtures(cal, club_name) ==
    LET own == SelectSeq(cal, LAMBDA m : m[1] = club_name \/ m[2] = club_name)
    IN  [k \in 1..Len(own) |-> PlayerEntry(own[k], club_name)]

\* The place of list[k] after a stable sort by the "round" key.
PlaceByRoundKey(list, k) ==
    1 + Cardinality({ j \in 1..Len(list) :
                        \/ list[j].round < list[k].round
                        \/ list[j].round = list[k].round /\ j < k })

\* player_calendar.sort(key=lambda match: match["round"])
SortEntries(list) ==
    [p \in 1..Len(list) |->
        list[CHOOSE k \in 1..Len(list) : PlaceByRoundKey(list, k) = p]]

\* The list create_player_calendar serialises: the club's fixtures of the
\* global calendar cal, sorted by round.
create_player_calendar(cal, club_name) ==
    SortEntries(PlayerFixtures(cal, club_name))

-----------------------------------------------------------------------------
(* get_opponent_by_round, for a personal calendar that parses              *)

\* Python's None.
None == "None"

\* The entries of the personal calendar whose round is current_round.
RoundEntries(personal_calendar, current_round) ==
    { k \in 1..Len(personal_calendar) :
        personal_calendar[k].round = current_round }

\* The values get_opponent_by_round can return for a parsed calendar: None
\* past round 18, the opponent of the first entry of the round, or a random
\* Silver club other than the player's when the round has no entry.
OpponentsByRound(personal_calendar, club, current_round) ==
    IF current_round > TotalRounds THEN {None}
    ELSE LET found == RoundEntries(personal_calendar, current_round)
         IN  IF found # {}
             THEN {personal_calendar[CHOOSE k \in found :
                                        \A j \in found : k <= j].opponent}
             ELSE { FNL_SILVER_CLUBS[k] : k \in 1..Len(FNL_SILVER_CLUBS) }
                  \ {club}

-----------------------------------------------------------------------------
(* The calendar specification: create_calendar run on a club list, then    *)
(* create_player_calendar run for its clubs and the opponent of a round    *)
(* looked up in the result.                                                *)

CalInit ==
    /\ clubs \in ClubLists
    /\ calendar = << >>
    /\ calpc = "config"
    /\ pclub = ""
    /\ pcal = << >>
    /\ qround = 0
    /\ qopp = None
    /\ fsm_state = None
    /\ data = [match_in_progress |-> FALSE, is_processing |-> FALSE, match_state |-> 0]
    /\ heap = << >>
    /\ player = << >>
    /\ inflight = {}
    /\ last = << >>
    /\ nActions = 0
    /\ starts = 0
    /\ counting = FALSE

\* MATCH_CALENDAR = create_calendar()
BuildCalendar ==
    /\ calpc = "config"
    /\ calendar' = create_calendar(clubs)
    /\ calpc' = "built"
    /\ UNCHANGED <<clubs, pclub, pcal, qround, qopp, botvars>>

\* create_player_calendar(club_name) for a club of the list.
BuildPlayerCalendar ==
    /\ calpc = "built"
    /\ \E k \in 1..Len(clubs) :
          /\ pclub' = clubs[k]
          /\ pcal' = create_player_calendar(calendar, clubs[k])
    /\ qround' = 0
    /\ qopp' = None
    /\ UNCHANGED <<clubs, calendar, calpc, botvars>>

\* get_opponent_by_round(player, current_round) with the calendar just built.
LookupOpponent ==
    /\ pclub # ""
    /\ \E r \in 1..(TotalRounds + 1) :
          /\ qround' = r
          /\ qopp' \in OpponentsByRound(pcal, pclub, r)
    /\ UNCHANGED <<clubs, calendar, calpc, pclub, pcal, botvars>>

CalNext == BuildCalendar \/ BuildPlayerCalendar \/ LookupOpponent

SpecCal == CalInit /\ [][CalNext]_vars

-----------------------------------------------------------------------------
(* Properties of the calendar generator                                    *)

\* The indices of the fixtures of calendar cal with home club a and away club b.
FixturesOf(cal, a, b) == { k \in 1..Len(cal) : cal[k][1] = a /\ cal[k][2] = b }

\* The indices of the fixtures of round r that club c takes part in.
FixturesInRound(cal, c, r) ==
    { k \in 1..Len(cal) : cal[k][3] = r /\ (cal[k][1] = c \/ cal[k][2] = c) }

ClubSet == { clubs[k] : k \in 1..Len(clubs) }

\* Every two clubs meet exactly twice, once at each club's home, and no club
\* plays twice in one round.
DoubleRoundRobin ==
    /\ \A a \in ClubSet : \A b \in ClubSet \ {a} :
          Cardinality(FixturesOf(calendar, a, b)) = 1
    /\ \A c \in ClubSet : \A r \in 1..(2 * Len(clubs)) :
          Cardinality(FixturesInRound(calendar, c, r)) <= 1
    /\ \A k \in 1..Len(calendar) :
          calendar[k][1] \in ClubSet /\ calendar[k][2] \in ClubSet

\* The circle of the club list (bye included) is not cut short by the cap of
\* 9 rounds per circle, i.e. the list has at most 10 clubs.
Untruncated == Len(WithBye(clubs)) - 1 <= MaxRoundsPerCircle

\* C1 (as amended): for every club list of size 2 <= N <= 10 the calendar
\* returned by create_calendar contains each unordered pair of real clubs
\* exactly twice, the two meetings having home and away swapped, and no club
\* appears in two fixtures of the same round.
C1_DoubleRoundRobinUpTo10 ==
    (calpc = "built" /\ Untruncated) => DoubleRoundRobin

\* C1 (as claimed): the same for every club list of size N >= 2.
C1_DoubleRoundRobinAnyN ==
    calpc = "built" => DoubleRoundRobin

\* C1 witness: create_calendar has run on an odd club list, so that the bye
\* club took part in the circle, and produced fixtures.
C1_Witness ==
    /\ calpc = "built"
    /\ Len(clubs) % 2 = 1
    /\ Untruncated
    /\ Len(calendar) = Len(clubs) * (Len(clubs) - 1)

\* C2: for the configured 10 clubs and 18 rounds the calendar has exactly 90
\* fixtures, exactly 5 in each round 1..18, every club plays exactly one
\* fixture per round, and the list is ordered by non-decreasing round.
C2_TenClubSeason ==
    (calpc = "built" /\ clubs = FNL_SILVER_CLUBS) =>
        /\ Len(calendar) = 90
        /\ \A r \in 1..TotalRounds :
              Cardinality({ k \in 1..Len(calendar) : calendar[k][3] = r }) = 5
        /\ \A k \in 1..Len(calendar) : calendar[k][3] \in 1..TotalRounds
        /\ \A c \in ClubSet : \A r \in 1..TotalRounds :
              Cardinality(FixturesInRound(calendar, c, r)) = 1
        /\ \A k \in 1..(Len(calendar) - 1) : calendar[k][3] <= calendar[k + 1][3]

\* C2 witness: create_calendar has run on the ten Silver clubs.
C2_Witness ==
    /\ calpc = "built"
    /\ clubs = FNL_SILVER_CLUBS
    /\ Len(calendar) > 0

(***************************************************************************)
(* The virtual season clock.  A stored date is text; the program tells the *)
(* two layouts apart by the separator and reads the three numeric fields   *)
(* in the order of the layout: DD.MM.YYYY or YYYY-MM-DD.                   *)
(***************************************************************************)

SEASON_START_MONTH == 9
SEASON_END_MONTH == 5
WINTER_BREAK_START == 12
WINTER_BREAK_END == 3
DAYS_BETWEEN_MATCHES == 7

\* datetime(y, m, d)
Date(y, m, d) == [y |-> y, m |-> m, d |-> d]

\* the ValueError that strptime raises, as a value no date equals
ValueError == Date(0, 0, 0)

IsLeap(y) == (y % 4 = 0 /\ y % 100 # 0) \/ y % 400 = 0

DaysInMonth(y, m) ==
    IF m = 2 THEN (IF IsLeap(y) THEN 29 ELSE 28)
    ELSE IF m \in {4, 6, 9, 11} THEN 30 ELSE 31

IsDate(dt) == dt.m \in 1..12 /\ dt.d >= 1 /\ dt.d <= DaysInMonth(dt.y, dt.m)

\* a text of three numeric fields around a separator
DateText(sep, f1, f2, f3) == [sep |-> sep, f1 |-> f1, f2 |-> f2, f3 |-> f3]

\* datetime.strptime(text, "%d.%m.%Y")
strptime_dmy(text) ==
    IF text.sep = "." /\ IsDate(Date(text.f3, text.f2, text.f1))
    THEN Date(text.f3, text.f2, text.f1) ELSE ValueError

\* datetime.strptime(text, "%Y-%m-%d")
strptime_ymd(text) ==
    IF text.sep = "-" /\ IsDate(Date(text.f1, text.f2, text.f3))
    THEN Date(text.f1, text.f2, text.f3) ELSE ValueError

\* date.strftime("%d.%m.%Y")
strftime_dmy(dt) == DateText(".", dt.d, dt.m, dt.y)

SEASON_START_DATE == DateText(".", 1, 9, 2025)

NextDay(dt) ==
    IF dt.d < DaysInMonth(dt.y, dt.m) THEN Date(dt.y, dt.m, dt.d + 1)
    ELSE IF dt.m < 12 THEN Date(dt.y, dt.m + 1, 1)
    ELSE Date(dt.y + 1, 1, 1)

RECURSIVE AddDays(_, _)
\* date + timedelta(days = n)
AddDays(dt, n) == IF n = 0 THEN dt ELSE AddDays(NextDay(dt), n - 1)

\* is_winter_break on a datetime: December, January or February
InWinterBreak(dt) ==
    dt.m = WINTER_BREAK_START \/ (dt.m >= 1 /\ dt.m < WINTER_BREAK_END)

\* a mutant of is_winter_break: only DD.MM.YYYY is read
is_winter_break_OneLayout(text) ==
    strptime_dmy(text) # ValueError /\ InWinterBreak(strptime_dmy(text))

\* is_winter_break on a stored text: DD.MM.YYYY is tried first, then
\* YYYY-MM-DD; a text neither layout reads counts as no break
is_winter_break(text) ==
    LET first == strptime_dmy(text)
        date == IF first # ValueError THEN first ELSE strptime_ymd(text)
    IN  date # ValueError /\ InWinterBreak(date)

(***************************************************************************)
(* The players table: one row, the user's.                                 *)
(***************************************************************************)

Goalkeeper == "Vratar"
Defender == "Zashchitnik"
Forward == "Napadayushchiy"
Positions == {Goalkeeper, Defender, Forward}

StatKeys == {"goals", "assists", "saves", "tackles"}

\* update_player_stats(user_id, **kwargs): a personal counter whose new
\* value exceeds the stored one is ADDED to the stored one, any other
\* column is overwritten
update_player_stats(row, kwargs) ==
    [k \in DOMAIN row |->
        IF k \notin DOMAIN kwargs THEN row[k]
        ELSE IF k \in StatKeys
             THEN (IF kwargs[k] > row[k] THEN row[k] + kwargs[k] ELSE kwargs[k])
             ELSE kwargs[k]]

\* start_new_season(player): round 1, the season's first date, a fresh
\* personal calendar of the player's club
start_new_season(row, pl) ==
    update_player_stats(row, [current_round |-> 1,
                              last_match_date |-> SEASON_START_DATE,
                              personal_calendar |-> pl.club])

\* the date advance_virtual_date reads off the stored text: the layout is
\* chosen by the separator the text holds, a text with neither separator
\* counts as the season's first date
ParseStoredDate(text) ==
    IF text.sep = "-" THEN strptime_ymd(text)
    ELSE IF text.sep = "." THEN strptime_dmy(text)
    ELSE strptime_dmy(SEASON_START_DATE)

\* a mutant of SkipWinterBreak: the break is not skipped
SkipWinterBreak_Never(current_date, new_date) == new_date

\* a date that enters the winter break moves to the first of March after it
SkipWinterBreak(current_date, new_date) ==
    IF ~InWinterBreak(current_date) /\ InWinterBreak(new_date)
    THEN (IF new_date.m = WINTER_BREAK_START
          THEN Date(new_date.y + 1, WINTER_BREAK_END, 1)
          ELSE Date(new_date.y, WINTER_BREAK_END, 1))
    ELSE new_date

\* a mutant of SeasonOver: the season never ends
SeasonOver_Never(current_date, new_date) == FALSE

\* the season ends when the date passes 25 May
SeasonOver(current_date, new_date) ==
    /\ (current_date.m < SEASON_END_MONTH
        \/ (current_date.m = SEASON_END_MONTH /\ current_date.d < 25))
    /\ (new_date.m > SEASON_END_MONTH
        \/ (new_date.m = SEASON_END_MONTH /\ new_date.d >= 25))

\* the table after the new date is written; a season that is over is
\* restarted first and the date becomes the first of September
WriteDate(row, pl, current_date, new_date) ==
    IF SeasonOver(current_date, new_date)
    THEN update_player_stats(start_new_season(row, pl),
             [last_match_date |->
                 strftime_dmy(Date(new_date.y, SEASON_START_MONTH, 1))])
    ELSE update_player_stats(row, [last_match_date |-> strftime_dmy(new_date)])

\* a mutant of AdvanceFrom: the date is never written
AdvanceFrom_Stuck(row, pl, current_date) == row

\* the body of advance_virtual_date once the stored date is read; a text
\* that strptime rejects leaves the table as it is
AdvanceFrom(row, pl, current_date) ==
    IF current_date = ValueError THEN row
    ELSE WriteDate(row, pl, current_date,
             SkipWinterBreak(current_date,
                             AddDays(current_date, DAYS_BETWEEN_MATCHES)))

\* advance_virtual_date(player): pl is the row as the caller fetched it,
\* row the table's current content; the result is the table's new content
advance_virtual_date(row, pl) ==
    AdvanceFrom(row, pl, ParseStoredDate(pl.last_match_date))

(***************************************************************************)
(* The match session.  The dispatcher keeps the user's FSM state and data  *)
(* in memory and hands every handler the stored dictionaries themselves,   *)
(* so a match_state dictionary is an object that the store and the         *)
(* handlers share: heap maps a reference to the dictionary's content.      *)
(* Only the keys that some handler reads are kept.                         *)
(***************************************************************************)

\* the most goals either side scores in a session of the model
MaxGoals == 1
\* the most saves, and the most tackles, counted in a session of the model
MaxStat == 1
\* the most matches the player of an initial state has behind them
MaxPrior == 1
\* the most sessions started in a behaviour
MaxStarts == 1
\* the most callback handlers suspended at a time
MaxInFlight == 2

\* GameStates.playing
playing == "GameStates:playing"

\* the FSM data after state.clear(): no key set (reference 0: no match_state)
NoData == [match_in_progress |-> FALSE, is_processing |-> FALSE, match_state |-> 0]

\* MATCH_CALENDAR = create_calendar()
MATCH_CALENDAR == create_calendar(FNL_SILVER_CLUBS)

\* json.loads(player.personal_calendar): the row names the club its
\* calendar was generated for, and pcal holds the calendar of pclub
PersonalCalendar(club_name) ==
    IF club_name = pclub THEN pcal
    ELSE create_player_calendar(calendar, club_name)

\* a personal_calendar column that is NULL or the empty text
NoCalendar == "<no calendar>"

\* a personal_calendar column whose text json.loads rejects
BadJson == "<not json>"

\* the other club of fixture i of the global calendar cal
OtherClub(cal, i, player_club) ==
    IF cal[i][1] = player_club THEN cal[i][2] ELSE cal[i][1]

\* the fixtures with index in range that player_club takes part in
OwnFixtures(cal, range, player_club) ==
    { i \in range : cal[i][1] = player_club \/ cal[i][2] = player_club }

\* the least index of a non-empty set of indices
FirstOf(indices) == CHOOSE i \in indices : \A j \in indices : i <= j

\* get_opponent_by_round_default(player_club, current_round) on the global
\* calendar cal: current_round is used as an INDEX into the list of
\* fixtures (from 1 here), not as a round; the search goes on from there to
\* the end of the list, then from its start, then to a random Silver club
get_opponent_by_round_default(cal, player_club, current_round) ==
    LET start == IF current_round > Len(cal) THEN 1 ELSE current_round
        later == OwnFixtures(cal, (start + 1)..Len(cal), player_club)
        earlier == OwnFixtures(cal, 1..(start - 1), player_club)
        others == { FNL_SILVER_CLUBS[k] : k \in 1..Len(FNL_SILVER_CLUBS) } \ {player_club}
    IN  IF OwnFixtures(cal, {start}, player_club) # {}
        THEN {OtherClub(cal, start, player_club)}
        ELSE IF later # {} THEN {OtherClub(cal, FirstOf(later), player_club)}
        ELSE IF earlier # {} THEN {OtherClub(cal, FirstOf(earlier), player_club)}
        ELSE IF others # {} THEN others
        ELSE {None}

\* get_opponent_by_round(player, current_round): the values it can return.
\* A calendar that is missing or does not parse is regenerated and the
\* answer comes from get_opponent_by_round_default.
get_opponent_by_round(pl, current_round) ==
    IF pl.personal_calendar \in {NoCalendar, BadJson}
    THEN get_opponent_by_round_default(calendar, pl.club, current_round)
    ELSE OpponentsByRound(PersonalCalendar(pl.personal_calendar), pl.club, current_round)

\* the table after get_opponent_by_round(player, ...): a calendar that is
\* missing or does not parse is replaced by the one generated for the club
SaveCalendar(row, pl) ==
    IF pl.personal_calendar \in {NoCalendar, BadJson}
    THEN update_player_stats(row, [personal_calendar |-> pl.club])
    ELSE row

\* the message ids of a session, up to their order: the first action
\* message of the session, or a later one
NextMessageId(ms) == IF ms.last_message_id = None THEN "first" ELSE "later"

ZeroStats == [goals |-> 0, assists |-> 0, saves |-> 0, tackles |-> 0]

\* the dictionary play_match_callback and cmd_play build
NewMatchState(pl, opponent) ==
    [match_in_progress |-> TRUE,
     minute |-> 0,
     your_goals |-> 0,
     opponent_goals |-> 0,
     position |-> pl.position,
     opponent_team |-> opponent,
     current_round |-> pl.current_round,
     is_processing |-> FALSE,
     stats |-> ZeroStats,
     waiting_second_action |-> FALSE,
     defense_success |-> FALSE,
     match_finished |-> FALSE,
     last_message_id |-> None]

\* the program's state as one value, for the handlers' bodies
World == [fsm_state |-> fsm_state, data |-> data, heap |-> heap, player |-> player]

\* state.update_data(match_state = match_state)
Store(w, r) == [w EXCEPT !.data.match_state = r]

\* the lowest reference no dictionary has
NewRef(w) ==
    CHOOSE r \in 1..(Cardinality(DOMAIN w.heap) + 1) :
        /\ r \notin DOMAIN w.heap
        /\ \A q \in 1..(r - 1) : q \in DOMAIN w.heap

\* the dictionaries that the store or a suspended handler still refers to
Collect(w, handlers) ==
    [w EXCEPT !.heap =
        [r \in DOMAIN w.heap \cap ({w.data.match_state} \cup { h.ms : h \in handlers })
            |-> w.heap[r]]]

\* can_play_match(player): whether a match may start, and the table after
\* the call (a season past round 18 is restarted on the way)
can_play_match(row, pl) ==
    IF is_winter_break(pl.last_match_date)
    THEN [ok |-> FALSE, reason |-> "winter break", row |-> row]
    ELSE LET current_round == IF pl.matches > 0 THEN pl.current_round ELSE 1
         IN  IF None \in get_opponent_by_round(pl, current_round) /\ current_round > 18
             THEN [ok |-> TRUE, reason |-> "new season",
                   row |-> start_new_season(SaveCalendar(row, pl), pl)]
             ELSE [ok |-> TRUE, reason |-> "", row |-> SaveCalendar(row, pl)]

\* start_match(message, match_state, state): the counters are reset, the
\* dictionary is stored and the first action message is sent
start_match(w, r) ==
    Store([w EXCEPT !.heap[r].stats = ZeroStats,
                    !.heap[r].your_goals = 0,
                    !.heap[r].opponent_goals = 0,
                    !.heap[r].minute = 0,
                    !.heap[r].last_message_id = NextMessageId(w.heap[r])], r)

\* simulate_team_attack: the team scores or not; no personal counter moves
simulate_team_attack(w, r) ==
    {w} \cup (IF w.heap[r].your_goals < MaxGoals
              THEN {[w EXCEPT !.heap[r].your_goals = @ + 1]} ELSE {})

\* simulate_opponent_attack: the opponent scores or not
simulate_opponent_attack(w, r) ==
    {w} \cup (IF w.heap[r].opponent_goals < MaxGoals
              THEN {[w EXCEPT !.heap[r].opponent_goals = @ + 1]} ELSE {})

\* the result finish_match reads off the goals
MatchResult_AlwaysDraw(your_goals, opponent_goals) == "draw"

MatchResult(your_goals, opponent_goals) ==
    IF your_goals > opponent_goals THEN "win"
    ELSE IF your_goals < opponent_goals THEN "loss" ELSE "draw"

\* the column finish_match raises for a result
ResultColumn(pl, result) ==
    IF result = "win" THEN [wins |-> pl.wins + 1]
    ELSE IF result = "loss" THEN [losses |-> pl.losses + 1]
    ELSE [draws |-> pl.draws + 1]

\* the table after finish_match: the result, the match and the round, the
\* date, then the personal counters; pl is the row fetched at the start
FinishedRow(row, pl, match_state) ==
    update_player_stats(
        advance_virtual_date(
            update_player_stats(
                update_player_stats(row,
                    ResultColumn(pl, MatchResult(match_state.your_goals,
                                                 match_state.opponent_goals))),
                [matches |-> pl.matches + 1,
                 current_round |-> pl.current_round + 1]),
            pl),
        [goals   |-> pl.goals + match_state.stats.goals,
         assists |-> pl.assists + match_state.stats.assists,
         saves   |-> pl.saves + match_state.stats.saves,
         tackles |-> pl.tackles + match_state.stats.tackles])

\* a mutant of finish_match: the store is not cleared
finish_match_KeepsStore(w) ==
    IF w.data.match_state = 0 THEN w
    ELSE [fsm_state |-> w.fsm_state,
          data |-> w.data,
          heap |-> [w.heap EXCEPT ![w.data.match_state].match_finished = TRUE],
          player |-> FinishedRow(w.player, w.player, w.heap[w.data.match_state])]

\* finish_match(callback, state): works on the dictionary the store holds
finish_match(w) ==
    IF w.data.match_state = 0 THEN w
    ELSE [fsm_state |-> None,
          data |-> [NoData EXCEPT !.match_state = w.data.match_state],
          heap |-> [w.heap EXCEPT ![w.data.match_state].match_finished = TRUE],
          player |-> FinishedRow(w.player, w.player, w.heap[w.data.match_state])]

\* the finally clause of continue_match and of the position handlers
ReleaseSession(w, r) == Store([w EXCEPT !.heap[r].is_processing = FALSE], r)

\* the values of random.randint(8, 12) the model draws: the two extremes
MinuteSteps == {8, 12}

\* a new action message is sent and its id recorded in the session
NewKeyboard(w, r) ==
    Store([w EXCEPT !.heap[r].last_message_id = NextMessageId(w.heap[r])], r)

\* the session r of world w at minute m
AtMinute(w, r, m) == Store([w EXCEPT !.heap[r].minute = m], r)

\* continue_match after the minute is drawn: the match ends at minute 90,
\* or the team may attack and a new action message is sent
ContinueAt(w, r, new_minute) ==
    IF new_minute >= 90
    THEN {finish_match(AtMinute(w, r, 90))}
    ELSE { NewKeyboard(x, r) :
             x \in (IF w.heap[r].position \in {Goalkeeper, Defender}
                    THEN simulate_team_attack(AtMinute(w, r, new_minute), r)
                    ELSE {AtMinute(w, r, new_minute)}) }

\* continue_match(callback, match_state, state)
continue_match(w, r) ==
    { ReleaseSession(x, r) :
        x \in UNION { ContinueAt(w, r, w.heap[r].minute + inc) : inc \in MinuteSteps } }

\* continue_match run on each world of a set
Continued(ws, r) == UNION { continue_match(x, r) : x \in ws }

\* a mutant of SecondPhaseOpen: the second action is always allowed
SecondPhaseOpen_Always(ms) == TRUE

\* match_state.get('waiting_second_action'): a save waits for its second
\* action
SecondPhaseOpen(ms) == ms.waiting_second_action

\* handle_goalkeeper_save(callback, match_state, state): the worlds in
\* which the handler just ends, and those in which the match goes on
handle_goalkeeper_save(w, r, action) ==
    LET ms == w.heap[r]
        \* the guess is right: a save, and the second keyboard
        saved == IF ms.stats.saves < MaxStat
                 THEN {[NewKeyboard([w EXCEPT !.heap[r].stats.saves = @ + 1], r)
                            EXCEPT !.heap[r].waiting_second_action = TRUE]}
                 ELSE {}
        \* the guess is wrong and the defenders win the ball
        covered == IF ms.stats.tackles < MaxStat
                   THEN {[w EXCEPT !.heap[r].stats.tackles = @ + 1]}
                   ELSE {}
        \* the guess is wrong and the shot is deflected
        deflected == {w}
        \* the guess is wrong and nobody helps: the handler just ends
        beaten == {w}
        \* the ball is played out after a save and the opponent attacks
        played == { Store([x EXCEPT !.heap[r].waiting_second_action = FALSE], r) :
                      x \in simulate_opponent_attack(w, r) }
        ends == IF action \in {"rush", "left", "right"} THEN saved \cup beaten
                ELSE IF action \in {"kick", "throw"} /\ SecondPhaseOpen(ms) THEN {}
                ELSE {w}
        goes_on == IF action \in {"rush", "left", "right"} THEN covered \cup deflected
                   ELSE IF action \in {"kick", "throw"} /\ SecondPhaseOpen(ms)
                   THEN played
                   ELSE {}
    IN  { ReleaseSession(x, r) : x \in ends \cup Continued(goes_on, r) }

\* handle_defender_tackle: the ball is won (the second keyboard is sent) or
\* the opponent attacks and the match goes on
handle_defender_tackle(w, r) ==
    LET ms == w.heap[r]
        won == IF ms.stats.tackles < MaxStat
               THEN {NewKeyboard(Store([w EXCEPT !.heap[r].stats.tackles = @ + 1,
                                                 !.heap[r].defense_success = TRUE], r), r)}
               ELSE {}
        lost == simulate_opponent_attack(w, r)
    IN  { ReleaseSession(x, r) : x \in won \cup Continued(lost, r) }

\* handle_defender_block: as the tackle, with other odds
handle_defender_block(w, r) ==
    LET ms == w.heap[r]
        won == IF ms.stats.tackles < MaxStat
               THEN {NewKeyboard(Store([w EXCEPT !.heap[r].stats.tackles = @ + 1,
                                                 !.heap[r].defense_success = TRUE], r), r)}
               ELSE {}
        lost == simulate_opponent_attack(w, r)
    IN  { ReleaseSession(x, r) : x \in won \cup Continued(lost, r) }

\* handle_defender_pass_left: the pass arrives (an assist or not) or the
\* opponent attacks
handle_defender_pass_left(w, r) ==
    LET ms == w.heap[r]
        goal == IF ms.your_goals < MaxGoals
                THEN {[w EXCEPT !.heap[r].your_goals = @ + 1,
                                !.heap[r].stats.assists = @ + 1]}
                ELSE {}
        after == goal \cup simulate_opponent_attack(w, r)
    IN  { ReleaseSession(x, r) : x \in Continued({ Store(x, r) : x \in after }, r) }

\* handle_defender_pass_right: the same to the other side
handle_defender_pass_right(w, r) ==
    LET ms == w.heap[r]
        goal == IF ms.your_goals < MaxGoals
                THEN {[w EXCEPT !.heap[r].your_goals = @ + 1,
                                !.heap[r].stats.assists = @ + 1]}
                ELSE {}
        after == goal \cup simulate_opponent_attack(w, r)
    IN  { ReleaseSession(x, r) : x \in Continued({ Store(x, r) : x \in after }, r) }

\* handle_defender_clearance
handle_defender_clearance(w, r) ==
    LET ms == w.heap[r]
        goal == IF ms.your_goals < MaxGoals
                THEN {[w EXCEPT !.heap[r].your_goals = @ + 1,
                                !.heap[r].stats.goals = @ + 1]}
                ELSE {}
        after == goal \cup simulate_opponent_attack(w, r)
    IN  { ReleaseSession(x, r) : x \in Continued(after, r) }

\* handle_forward_shot: a goal or not, then the opponent's reply
handle_forward_shot(w, r) ==
    LET ms == w.heap[r]
        shot == {w} \cup (IF ms.your_goals < MaxGoals
                          THEN {[w EXCEPT !.heap[r].your_goals = @ + 1,
                                          !.heap[r].stats.goals = @ + 1]}
                          ELSE {})
        after == UNION { simulate_opponent_attack(x, r) : x \in shot }
    IN  { ReleaseSession(x, r) : x \in Continued({ Store(x, r) : x \in after }, r) }

\* handle_forward_pass: the pass arrives (an assist or not) or is cut out
\* a mutant of handle_forward_pass: the assist is credited, the goal is not
handle_forward_pass_AssistOnly(w, r) ==
    LET ms == w.heap[r]
        goal == IF ms.stats.assists < MaxStat
                THEN {[w EXCEPT !.heap[r].stats.assists = @ + 1]}
                ELSE {}
        after == goal \cup simulate_opponent_attack(w, r)
    IN  { ReleaseSession(x, r) : x \in Continued({ Store(x, r) : x \in after }, r) }

handle_forward_pass(w, r) ==
    LET ms == w.heap[r]
        goal == IF ms.your_goals < MaxGoals
                THEN {[w EXCEPT !.heap[r].your_goals = @ + 1,
                                !.heap[r].stats.assists = @ + 1]}
                ELSE {}
        after == goal \cup simulate_opponent_attack(w, r)
    IN  { ReleaseSession(x, r) : x \in Continued({ Store(x, r) : x \in after }, r) }

\* handle_forward_dribble: the keyboard of the follow-up, or the ball is lost
handle_forward_dribble(w, r) ==
    LET through == {NewKeyboard(w, r)}
        lost == { Store(x, r) : x \in simulate_opponent_attack(w, r) }
    IN  { ReleaseSession(x, r) : x \in through \cup Continued(lost, r) }

(***************************************************************************)
(* The callback handlers.  A callback's data is a prefix and the rest of   *)
(* the text; the dispatcher runs the first registered handler whose filter *)
(* accepts the data.                                                       *)
(***************************************************************************)

CallbackText(prefix, rest) == [prefix |-> prefix, rest |-> rest]

\* the data of the buttons the keyboards of a match carry
ActionButtons == { CallbackText("action", a) :
                     a \in {"rush", "left", "right", "kick", "throw",
                            "shot", "pass", "dribble",
                            "shot_after_dribble", "pass_after_dribble"} }
DefenseButtons == { CallbackText("defense", a) :
                      a \in {"tackle", "block", "pass_left", "clear", "pass_right"} }
ContinueButtons == { CallbackText("continue_match", "timestamp") }

\* the handlers of match callbacks, in the order of their registration
Handlers == <<"handle_action", "handle_defense_action",
              "handle_shot_after_dribble", "handle_pass_after_dribble",
              "handle_continue_match">>

\* the filter a handler is registered with
Filter(h, cb) ==
    CASE h = "handle_action" -> cb.prefix = "action"
      [] h = "handle_defense_action" -> cb.prefix = "defense"
      [] h = "handle_shot_after_dribble" -> cb = CallbackText("action", "shot_after_dribble")
      [] h = "handle_pass_after_dribble" -> cb = CallbackText("action", "pass_after_dribble")
      [] h = "handle_continue_match" -> cb.prefix = "continue_match"

\* the handler the dispatcher runs for a callback: the first that accepts it
Route(cb) ==
    Handlers[CHOOSE i \in 1..Len(Handlers) :
                /\ Filter(Handlers[i], cb)
                /\ \A j \in 1..(i - 1) : ~Filter(Handlers[j], cb)]

\* callback.data.split('_')[1] of an action button
Token(cb) ==
    IF cb.rest = "shot_after_dribble" THEN "shot"
    ELSE IF cb.rest = "pass_after_dribble" THEN "pass"
    ELSE cb.rest

\* the guard the three handlers open with: the stored session is finished
\* or its minute has reached 90
IsOver_Never(w) == FALSE

IsOver(w) ==
    /\ w.data.match_state # 0
    /\ \/ w.heap[w.data.match_state].match_finished
       \/ w.heap[w.data.match_state].minute >= 90

\* what the entry of a handler decides: handle_action and
\* handle_defense_action test the top-level is_processing key,
\* handle_continue_match the one inside the dictionary
Verdict(w, h) ==
    IF h = "handle_continue_match"
    THEN IF w.data.match_state = 0 THEN "no_match"
         ELSE IF IsOver(w) THEN "finished"
         ELSE IF w.heap[w.data.match_state].is_processing THEN "busy"
         ELSE "accepted"
    ELSE IF IsOver(w) THEN "finished"
         ELSE IF w.data.is_processing THEN "busy"
         ELSE "accepted"

\* an accepted handler raises its flag before it first suspends
Begin(w, h) ==
    IF h = "handle_continue_match"
    THEN Store([w EXCEPT !.heap[w.data.match_state].is_processing = TRUE],
               w.data.match_state)
    ELSE [w EXCEPT !.data.is_processing = TRUE]

\* a mutant of ReleaseData: the flag is left as it is
ReleaseData_Kept(w) == w

\* the finally clause of handle_action and handle_defense_action
ReleaseData(w) == [w EXCEPT !.data.is_processing = FALSE]

\* the try block of handle_action on the dictionary r it read at entry.
\* For a defender it calls handle_defense_action, which finds the key that
\* handle_action has just set and returns.
DispatchAction(w, r, cb) ==
    LET position == w.heap[r].position
        action == Token(cb)
    IN  IF position = Goalkeeper THEN handle_goalkeeper_save(w, r, action)
        ELSE IF position = Defender THEN {w}
        ELSE IF action = "shot" THEN handle_forward_shot(w, r)
        ELSE IF action = "pass" THEN handle_forward_pass(w, r)
        ELSE IF action = "dribble" THEN handle_forward_dribble(w, r)
        ELSE {w}

\* the try block of handle_defense_action; action = callback.data[8:]
DispatchDefense(w, r, cb) ==
    LET action == cb.rest
    IN  IF action = "tackle" THEN handle_defender_tackle(w, r)
        ELSE IF action = "block" THEN handle_defender_block(w, r)
        ELSE IF action = "pass_left" THEN handle_defender_pass_left(w, r)
        ELSE IF action = "pass_right" THEN handle_defender_pass_right(w, r)
        ELSE IF action = "clear" THEN handle_defender_clearance(w, r)
        ELSE {w}

\* the worlds an accepted handler can leave behind: it resumes in world w
\* and works on the dictionary r it read at entry (0: none was stored, and
\* the handler finds no position or session to act on)
Resolve(w, h, cb, r) ==
    IF h = "handle_action"
    THEN { ReleaseData(x) : x \in (IF r = 0 THEN {w} ELSE DispatchAction(w, r, cb)) }
    ELSE IF h = "handle_defense_action"
    THEN { ReleaseData(x) : x \in (IF r = 0 THEN {w} ELSE DispatchDefense(w, r, cb)) }
    ELSE { ReleaseSession(x, r) : x \in continue_match(w, r) }

\* the answer the user gets to a callback
Reply(w, h, cb) ==
    LET r == w.data.match_state
    IN  IF /\ Verdict(w, h) = "accepted"
           /\ h = "handle_action"
           /\ r # 0
           /\ w.heap[r].position = Goalkeeper
           /\ Token(cb) \in {"kick", "throw"}
           /\ ~SecondPhaseOpen(w.heap[r])
        THEN "first_save"
        ELSE Verdict(w, h)

\* a press of a button of an earlier action message of the session is
\* possible once the session has sent a later one
CanBeStale(w) ==
    /\ w.data.match_state # 0
    /\ w.heap[w.data.match_state].last_message_id = "later"

\* the next state is world x, after the dictionaries no one refers to are
\* dropped
Becomes(x, handlers) ==
    LET y == Collect(x, handlers)
    IN  /\ fsm_state' = y.fsm_state
        /\ data' = y.data
        /\ heap' = y.heap
        /\ player' = y.player

(***************************************************************************)
(* The match specifications.  In Spec every handler runs to its end before *)
(* the next update is taken; in SpecConc an accepted callback handler      *)
(* suspends after its entry (at its first sleep or send) and resolves in a *)
(* later step, so that handlers of one user overlap.                       *)
(***************************************************************************)

\* a row of the players table for a player with n matches behind them; the
\* counters are the player's own or an administrator's edit
NewPlayer(position, n) ==
    [position |-> position,
     club |-> FNL_SILVER_CLUBS[1],
     matches |-> n, wins |-> n, draws |-> 0, losses |-> 0,
     goals |-> n, assists |-> n, saves |-> n, tackles |-> n,
     current_round |-> 1 + n,
     last_match_date |-> strftime_dmy(AddDays(strptime_dmy(SEASON_START_DATE),
                                              n * DAYS_BETWEEN_MATCHES)),
     personal_calendar |-> FNL_SILVER_CLUBS[1]]

NoCallback == [stale |-> FALSE, reply |-> None]

InitBot ==
    /\ clubs = FNL_SILVER_CLUBS
    /\ calendar = MATCH_CALENDAR
    /\ calpc = "built"
    /\ pclub = FNL_SILVER_CLUBS[1]
    /\ pcal = create_player_calendar(calendar, pclub)
    /\ qround = 0
    /\ qopp = None
    /\ fsm_state = None
    /\ data = NoData
    /\ heap = << >>
    /\ player \in { NewPlayer(position, n) : position \in Positions, n \in 0..MaxPrior }
    /\ inflight = {}
    /\ last = NoCallback
    /\ nActions = 0
    /\ starts = 0

Init == InitBot /\ counting = FALSE

\* play_match_callback, while fewer than limit sessions have been started
StartByButton(limit) ==
    LET w == World
        pl == player
        can_play == can_play_match(player, pl)
        no_opponent == None \in get_opponent_by_round(pl, pl.current_round)
        row == IF no_opponent THEN start_new_season(SaveCalendar(can_play.row, pl), pl)
               ELSE SaveCalendar(can_play.row, pl)
        fetched == IF no_opponent THEN row ELSE pl
        r == NewRef(w)
    IN  /\ starts < limit
        /\ ~data.match_in_progress
        /\ can_play.ok
        /\ \E opponent \in (IF no_opponent THEN get_opponent_by_round(fetched, 1)
                            ELSE get_opponent_by_round(pl, pl.current_round)) :
              LET match_state == NewMatchState(fetched, opponent)
                  w1 == [w EXCEPT !.player = row,
                                  !.data.match_in_progress = TRUE,
                                  !.data.is_processing = FALSE,
                                  !.heap = (r :> match_state) @@ w.heap]
              IN  Becomes(start_match(w1, r), inflight)
        /\ starts' = starts + 1
        /\ nActions' = 0
        /\ last' = NoCallback
        /\ UNCHANGED <<calvars, inflight, counting>>

\* cmd_play, while fewer than limit sessions have been started
StartByCommand(limit) ==
    LET w == World
        pl == player
        can_play == can_play_match(player, pl)
        r == NewRef(w)
    IN  /\ starts < limit
        /\ fsm_state # playing
        /\ can_play.ok
        /\ \E opponent \in get_opponent_by_round(pl, pl.current_round) :
              LET match_state == NewMatchState(pl, opponent)
                  w1 == Store([w EXCEPT !.player = SaveCalendar(can_play.row, pl),
                                        !.fsm_state = playing,
                                        !.heap = (r :> match_state) @@ w.heap], r)
              IN  Becomes(start_match(w1, r), inflight)
        /\ starts' = starts + 1
        /\ nActions' = 0
        /\ last' = NoCallback
        /\ UNCHANGED <<calvars, inflight, counting>>

\* play_match_callback: the "play_match" button
PlayMatchCallback == StartByButton(MaxStarts)

\* cmd_play: the /play command
CmdPlay == StartByCommand(MaxStarts)

\* the callback cb handled from entry to end: what it does to the store,
\* the table and the count of actions
Handled(cb) ==
    LET w == World
        h == Route(cb)
        r == w.data.match_state
        accepted == Verdict(w, h) = "accepted"
    IN  /\ counting => nActions <= 50
        /\ \E x \in (IF accepted THEN Resolve(Begin(w, h), h, cb, r) ELSE {w}) :
              Becomes(x, inflight)
        /\ nActions' = IF counting /\ accepted /\ r # 0 /\ cb.prefix # "continue_match"
                       THEN nActions + 1 ELSE nActions
        /\ UNCHANGED <<calvars, inflight, starts, counting>>

\* a callback of the buttons in cbs, handled from entry to end in one step;
\* stale tells whether the button pressed is one of an earlier message, for
\* the behaviours that keep this history (stales = BOOLEAN)
Handle(cbs, stales) ==
    \E cb \in cbs :
        /\ Handled(cb)
        /\ \E stale \in {FALSE} \cup (IF CanBeStale(World) THEN stales ELSE {}) :
              last' = [stale |-> stale, reply |-> Reply(World, Route(cb), cb)]

\* handle_action
HandleAction == Handle(ActionButtons, {FALSE})

\* handle_defense_action
HandleDefenseAction == Handle(DefenseButtons, {FALSE})

\* handle_continue_match
HandleContinueMatch == Handle(ContinueButtons, {FALSE})

Next ==
    \/ PlayMatchCallback
    \/ CmdPlay
    \/ HandleAction
    \/ HandleDefenseAction
    \/ HandleContinueMatch

Spec == Init /\ [][Next]_vars

\* a goalkeeper's session with the history of the presses kept, which
\* message each came from and how many were accepted: the /play command and
\* the buttons of the goalkeeper's first keyboard
SaveButtons == { CallbackText("action", a) : a \in {"rush", "left", "right"} }

InitCap == InitBot /\ counting = TRUE /\ player.position = Goalkeeper
                   /\ player.matches = 0

HandleSave == Handle(SaveButtons, BOOLEAN)

NextCap == CmdPlay \/ HandleSave

SpecCap == InitCap /\ [][NextCap]_vars

\* the buttons of the keyboards a forward's session sends, and the
\* continue button
ForwardButtons == { CallbackText("action", a) :
                      a \in {"shot", "pass", "dribble",
                             "shot_after_dribble", "pass_after_dribble"} }

\* the entry of a callback handler: the guards, and for an accepted
\* callback the flag and the suspension
Deliver(cbs) ==
    \E cb \in cbs :
        LET w == World
            h == Route(cb)
            r == w.data.match_state
            accepted == Verdict(w, h) = "accepted"
            handlers == IF accepted
                        THEN inflight \cup {[handler |-> h, cb |-> cb, ms |-> r]}
                        ELSE inflight
        IN  /\ Cardinality(inflight) < MaxInFlight
            /\ Becomes(IF accepted THEN Begin(w, h) ELSE w, handlers)
            /\ inflight' = handlers
            /\ last' = [stale |-> FALSE, reply |-> Reply(w, h, cb)]
            /\ UNCHANGED <<calvars, nActions, starts, counting>>

DeliverAction == Deliver(ForwardButtons)

DeliverContinue == Deliver(ContinueButtons)

\* the suspended handler hr resumes and runs to its end
Completes(hr) ==
    /\ \E x \in Resolve(World, hr.handler, hr.cb, hr.ms) :
          Becomes(x, inflight \ {hr})
    /\ inflight' = inflight \ {hr}
    /\ UNCHANGED <<calvars, last, nActions, starts, counting>>

\* a suspended handler resumes and runs to its end
Complete == \E hr \in inflight : Completes(hr)

NextConc ==
    \/ PlayMatchCallback
    \/ CmdPlay
    \/ DeliverAction
    \/ DeliverContinue
    \/ Complete

\* a forward with matches behind them
InitConc == Init /\ player.position = Forward /\ player.matches = MaxPrior

SpecConc == InitConc /\ [][NextConc]_vars

\* Sessions of the three positions in which last keeps, besides the answer,
\* the button that was pressed
Press(cbs) ==
    \E cb \in cbs :
        /\ Handled(cb)
        /\ last' = [stale |-> FALSE, reply |-> Reply(World, Route(cb), cb),
                    button |-> cb.rest]

PressContinue == Press(ContinueButtons)

\* a goalkeeper's session: the buttons of the goalkeeper's two keyboards
KeeperButtons == { CallbackText("action", a) :
                     a \in {"rush", "left", "right", "kick", "throw"} }

PressKeeper == Press(KeeperButtons)

NextKeeper == PlayMatchCallback \/ CmdPlay \/ PressKeeper \/ PressContinue

InitKeeper == Init /\ player.position = Goalkeeper /\ player.matches = 0

SpecKeeper == InitKeeper /\ [][NextKeeper]_vars

\* a defender's session: the buttons of the defender's two keyboards
PressDefense == Press(DefenseButtons)

NextDefender == PlayMatchCallback \/ CmdPlay \/ PressDefense \/ PressContinue

InitDefender == Init /\ player.position = Defender /\ player.matches = 0

SpecDefender == InitDefender /\ [][NextDefender]_vars

\* the most start-match requests accepted in a behaviour of SpecStart
MaxRequests == 2

\* a forward who asks for matches again and again, through the button and
\* through the command, and plays in between
PressPlayMatch == StartByButton(MaxRequests)

TypePlay == StartByCommand(MaxRequests)

NextStart ==
    \/ PressPlayMatch
    \/ TypePlay
    \/ HandleAction
    \/ HandleContinueMatch

InitStart == Init /\ player.position = Forward /\ player.matches = 0

SpecStart == InitStart /\ [][NextStart]_vars

\* Sessions of forwards at several points of the season: the round pointer
\* in mid-season, at the last round and past it, the date in either layout,
\* a week before the winter break and a week before the season's end, the
\* calendar column intact or missing
RoundDates ==
    { DateText(".", 6, 10, 2025), DateText("-", 2025, 10, 6),
      DateText(".", 26, 11, 2025), DateText(".", 17, 5, 2026),
      DateText(".", 20, 5, 2026), DateText("-", 2026, 5, 24) }

RoundPlayers ==
    { [NewPlayer(Forward, n) EXCEPT !.current_round = round,
                                    !.last_match_date = text,
                                    !.personal_calendar = cal] :
        n \in {0, 1}, round \in {5, 18, 19}, text \in RoundDates,
        cal \in {FNL_SILVER_CLUBS[1], NoCalendar} }

InitRound ==
    /\ clubs = FNL_SILVER_CLUBS
    /\ calendar = MATCH_CALENDAR
    /\ calpc = "built"
    /\ pclub = FNL_SILVER_CLUBS[1]
    /\ pcal = create_player_calendar(calendar, pclub)
    /\ qround = 0
    /\ qopp = None
    /\ fsm_state = None
    /\ data = NoData
    /\ heap = << >>
    /\ player \in RoundPlayers
    /\ inflight = {}
    /\ last = NoCallback
    /\ nActions = 0
    /\ starts = 0
    /\ counting = FALSE

NextRound == PlayMatchCallback \/ CmdPlay \/ HandleAction \/ HandleContinueMatch

SpecRound == InitRound /\ [][NextRound]_vars

(***************************************************************************)
(* The season specification: the functions of the season clock and of the  *)
(* personal calendar applied to a stored profile, one call per step.  The  *)
(* profile's date text, round pointer, club and calendar column are drawn  *)
(* from the values the table can hold, an administrator's edits and the    *)
(* older date layout included.  last records the call, its argument and    *)
(* what it returned; nActions counts the calls.                            *)
(***************************************************************************)

\* the most calls in a behaviour of SpecSeason
MaxCalls == 2

\* get_virtual_date(player): the text it returns
get_virtual_date(pl) ==
    LET text == pl.last_match_date
        date == IF text.sep = "-" THEN strptime_ymd(text)
                ELSE IF text.sep = "." THEN strptime_dmy(text)
                ELSE ValueError
    IN  IF date = ValueError THEN DateText(".", 1, 9, 2025) ELSE strftime_dmy(date)

\* what advance_virtual_date(player) returns: the text it stored, or the
\* player's text when strptime raised
AdvanceReturns(row, pl) ==
    IF ParseStoredDate(pl.last_match_date) = ValueError THEN pl.last_match_date
    ELSE advance_virtual_date(row, pl).last_match_date

\* update_player_club(user_id, club)
update_player_club(row, club) == update_player_stats(row, [club |-> club])

\* the date texts of the profiles: the days around the start of the
\* winter break and around the end of the season, days inside the break
\* and in the season, the older layout, and texts that are no date
DateTexts ==
    { DateText(".", d, 11, 2025) : d \in 22..30 }
    \cup { DateText(".", d, 5, 2026) : d \in 16..26 }
    \cup { DateText(".", 1, 9, 2025), DateText(".", 6, 10, 2025),
           DateText(".", 15, 12, 2025), DateText(".", 28, 12, 2025),
           DateText(".", 10, 1, 2026), DateText(".", 25, 2, 2026),
           DateText(".", 1, 3, 2026), DateText(".", 15, 7, 2026) }
    \cup { DateText("-", 2025, 9, 1), DateText("-", 2025, 11, 26),
           DateText("-", 2026, 1, 10), DateText("-", 2026, 5, 20) }
    \cup { DateText(".", 31, 2, 2026), DateText("-", 2026, 13, 1),
           DateText("/", 1, 9, 2025) }

\* the clubs of the profiles: a Silver club and a Gold club
ProfileClubs == {FNL_SILVER_CLUBS[1], FNL_GOLD_CLUBS[4]}

\* the clubs a transfer button names: a top Silver club, a Gold club
TransferClubs == {FNL_SILVER_CLUBS[2], FNL_GOLD_CLUBS[4]}

\* the round pointers of the profiles, and the rounds asked for
ProfileRounds == {1, 5, 18, 19}

\* the calendar columns of a profile of the club: the calendar made for
\* it, no calendar, and a text that is no JSON
CalendarColumns(club) == {club, NoCalendar, BadJson}

SeasonPlayers ==
    UNION { { [NewPlayer(Forward, n) EXCEPT !.club = club,
                                            !.current_round = round,
                                            !.last_match_date = text,
                                            !.personal_calendar = cal] :
                n \in {0, 1}, round \in ProfileRounds,
                text \in DateTexts, cal \in CalendarColumns(club) } :
            club \in ProfileClubs }

InitSeason ==
    /\ clubs = FNL_SILVER_CLUBS
    /\ calendar = MATCH_CALENDAR
    /\ calpc = "built"
    /\ pclub = FNL_SILVER_CLUBS[1]
    /\ pcal = create_player_calendar(calendar, pclub)
    /\ qround = 0
    /\ qopp = None
    /\ fsm_state = None
    /\ data = NoData
    /\ heap = << >>
    /\ player \in SeasonPlayers
    /\ inflight = {}
    /\ last = [stale |-> FALSE, reply |-> None,
               arg |-> [club |-> None], result |-> [opponent |-> None]]
    /\ nActions = 0
    /\ starts = 0
    /\ counting = FALSE

\* one call: the table becomes row, and the call is recorded
Called(name, row, result) ==
    /\ nActions < MaxCalls
    /\ player' = row
    /\ last' = [stale |-> FALSE, reply |-> name, arg |-> player, result |-> result]
    /\ nActions' = nActions + 1
    /\ UNCHANGED <<clubs, calendar, calpc, pclub, pcal,
                   fsm_state, data, heap, inflight, starts, counting>>

AdvanceVirtualDate ==
    /\ Called("advance_virtual_date", advance_virtual_date(player, player),
              AdvanceReturns(player, player))
    /\ UNCHANGED <<qround, qopp>>

CanPlayMatch ==
    /\ Called("can_play_match", can_play_match(player, player).row,
              [ok |-> can_play_match(player, player).ok,
               reason |-> can_play_match(player, player).reason])
    /\ UNCHANGED <<qround, qopp>>

GetVirtualDate ==
    /\ Called("get_virtual_date", player, get_virtual_date(player))
    /\ UNCHANGED <<qround, qopp>>

GetOpponentByRound ==
    \E current_round \in ProfileRounds :
        \E opponent \in get_opponent_by_round(player, current_round) :
            /\ Called("get_opponent_by_round", SaveCalendar(player, player),
                      [opponent |-> opponent])
            /\ qround' = current_round
            /\ qopp' = opponent

\* transfer_callback
TransferCallback ==
    \E club \in TransferClubs :
        /\ Called("transfer_callback", update_player_club(player, club),
                  [club |-> club])
        /\ UNCHANGED <<qround, qopp>>

NextSeason ==
    \/ AdvanceVirtualDate
    \/ CanPlayMatch
    \/ GetVirtualDate
    \/ GetOpponentByRound
    \/ TransferCallback

SpecSeason == InitSeason /\ [][NextSeason]_vars

(***************************************************************************)
(* The sessions of a defender under overlap: the action buttons reach the  *)
(* defender through handle_action, which hands them to                     *)
(* handle_defense_action, the defense buttons reach it directly.           *)
(***************************************************************************)

DeliverAny == Deliver(ActionButtons \cup DefenseButtons)

NextBusy ==
    \/ PlayMatchCallback
    \/ CmdPlay
    \/ DeliverAny
    \/ DeliverContinue
    \/ Complete

InitBusy == Init /\ player.position = Defender /\ player.matches = 0

SpecBusy == InitBusy /\ [][NextBusy]_vars

(***************************************************************************)
(* A profile over its seasons: from registration on, a match is requested, *)
(* played and finished, one after the other.  Only what the request and    *)
(* the finish do to the profile is kept of a session.                      *)
(***************************************************************************)

\* the sessions a profile plays in the model
MaxSessions == 20

\* a match request: can_play_match decides, restarts a season that is past
\* round 18, and a session is open when it agrees
RequestMatch ==
    LET can_play == can_play_match(player, player)
    IN  /\ starts < MaxSessions
        /\ ~data.match_in_progress
        /\ player' = can_play.row
        /\ data' = [data EXCEPT !.match_in_progress = can_play.ok]
        /\ last' = [stale |-> FALSE,
                    reply |-> IF can_play.ok THEN "started" ELSE can_play.reason]
        /\ starts' = IF can_play.ok THEN starts + 1 ELSE starts
        /\ UNCHANGED <<calvars, fsm_state, heap, inflight, nActions, counting>>

\* the session reaches minute 90: finish_match writes the result, the
\* match, the round and the date, and clears the store
FinishSession ==
    \E your_goals \in 0..MaxGoals :
        /\ data.match_in_progress
        /\ player' = FinishedRow(player, player,
                                 [your_goals |-> your_goals, opponent_goals |-> 0,
                                  stats |-> ZeroStats])
        /\ data' = [data EXCEPT !.match_in_progress = FALSE]
        /\ last' = [stale |-> FALSE, reply |-> "finished"]
        /\ UNCHANGED <<calvars, fsm_state, heap, inflight, nActions, starts, counting>>

NextYear == RequestMatch \/ FinishSession

\* the profile as cmd_start registers it
InitYear == Init /\ player = NewPlayer(Forward, 0)

SpecYear == InitYear /\ [][NextYear]_vars

(***************************************************************************)
(* The statistics button pressed between the steps of a match.             *)
(***************************************************************************)

\* show_stats_callback(callback, state): refused while the FSM state is
\* playing; otherwise the match_state key of the store is set to None and
\* the statistics are sent
show_stats_callback(w) ==
    IF w.fsm_state = playing THEN w ELSE [w EXCEPT !.data.match_state = 0]

ShowStats ==
    /\ Becomes(show_stats_callback(World), inflight)
    /\ last' = [stale |-> FALSE,
                reply |-> IF fsm_state = playing THEN "no_stats_in_match"
                          ELSE "show_stats"]
    /\ UNCHANGED <<calvars, inflight, nActions, starts, counting>>

NextStats ==
    \/ PlayMatchCallback
    \/ CmdPlay
    \/ HandleAction
    \/ HandleContinueMatch
    \/ ShowStats

SpecStats == InitStart /\ [][NextStats]_vars

(***************************************************************************)
(* The end of a match under overlap.  finish_match awaits the table after  *)
(* every write; in SpecFinish the finish_match that handle_continue_match  *)
(* reaches may suspend after its first write and resume in a later step,   *)
(* with the profile it fetched at its start.                               *)
(***************************************************************************)

\* finish_match up to its first write: the result is read off the goals
\* and the result column is raised
finish_begin(w) ==
    LET ms == w.heap[w.data.match_state]
    IN  [w EXCEPT !.player =
            update_player_stats(w.player,
                ResultColumn(w.player, MatchResult(ms.your_goals, ms.opponent_goals)))]

\* finish_match from its second write on, for the profile pl and the
\* dictionary r it fetched at its start
finish_end(w, pl, r) ==
    [fsm_state |-> None,
     data |-> [NoData EXCEPT !.match_state = r],
     heap |-> [w.heap EXCEPT ![r].match_finished = TRUE],
     player |->
        update_player_stats(
            advance_virtual_date(
                update_player_stats(w.player,
                    [matches |-> pl.matches + 1,
                     current_round |-> pl.current_round + 1]),
                pl),
            [goals   |-> pl.goals + w.heap[r].stats.goals,
             assists |-> pl.assists + w.heap[r].stats.assists,
             saves   |-> pl.saves + w.heap[r].stats.saves,
             tackles |-> pl.tackles + w.heap[r].stats.tackles])]

\* a suspended finish_match
Finishes(hr) == hr.handler = "finish_match"

\* a suspended handle_continue_match resumes, continue_match takes the
\* minute to 90 and finish_match suspends after its first write
EnterFinish ==
    \E hr \in inflight :
        /\ hr.handler = "handle_continue_match"
        /\ \E inc \in MinuteSteps : heap[hr.ms].minute + inc >= 90
        /\ LET handlers == (inflight \ {hr}) \cup
                               {[handler |-> "finish_match", cb |-> hr.cb,
                                 ms |-> hr.ms, pl |-> player]}
           IN  /\ Becomes(finish_begin(AtMinute(World, hr.ms, 90)), handlers)
               /\ inflight' = handlers
        /\ UNCHANGED <<calvars, last, nActions, starts, counting>>

\* the suspended finish_match resumes and runs to its end, and so do
\* continue_match and handle_continue_match around it
LeaveFinish ==
    \E hr \in inflight :
        /\ Finishes(hr)
        /\ Becomes(ReleaseSession(
                       ReleaseSession(finish_end(World, hr.pl, hr.ms), hr.ms),
                       hr.ms),
                   inflight \ {hr})
        /\ inflight' = inflight \ {hr}
        /\ UNCHANGED <<calvars, last, nActions, starts, counting>>

\* a suspended callback handler resumes and runs to its end
ResumeHandler == \E hr \in inflight : ~Finishes(hr) /\ Completes(hr)

NextFinish ==
    \/ PlayMatchCallback
    \/ DeliverAction
    \/ DeliverContinue
    \/ ResumeHandler
    \/ EnterFinish
    \/ LeaveFinish

SpecFinish == InitConc /\ [][NextFinish]_vars

(***************************************************************************)
(* The transfer offers: get_transfer_offers applied to stored profiles on  *)
(* both sides of each of its thresholds.                                   *)
(***************************************************************************)

TOP_SILVER == <<"Tekstilshchik", "Sibir", "Avangard-Kursk">>
MID_GOLD == <<"Volgar", "Chelyabinsk", "Rodina-2", "Mashuk-KMV", "Veles">>

\* the clubs of a list
Members(list) == { list[k] : k \in 1..Len(list) }

\* a mutant of Sample: positions may repeat
Sample_Repeating(population, k) ==
    { [i \in 1..k |-> population[f[i]]] : f \in [1..k -> 1..Len(population)] }

\* random.sample(population, k): the lists of k elements drawn at k
\* different positions
Sample(population, k) ==
    { [i \in 1..k |-> population[f[i]]] :
        f \in { g \in [1..k -> 1..Len(population)] :
                  \A i \in 1..k : \A j \in 1..k : i # j => g[i] # g[j] } }

\* a mutant of Deserves: every profile deserves an offer
Deserves_Always(pl, saves_min, tackles_min) == TRUE

\* the test of get_transfer_offers on the player's record
Deserves(pl, saves_min, tackles_min) ==
    /\ pl.matches >= 10
    /\ \/ pl.goals >= 5
       \/ pl.assists >= 5
       \/ pl.saves >= saves_min
       \/ pl.tackles >= tackles_min

\* [c for c in TOP_SILVER if c != club]
Available(club) == SelectSeq(TOP_SILVER, LAMBDA c : c # club)

\* get_transfer_offers(player): the pairs (league, offers) it can return
get_transfer_offers(pl) ==
    IF pl.club \in Members(TOP_SILVER) /\ Deserves(pl, 40, 25)
    THEN { [league |-> "gold", offers |-> o] : o \in Sample(MID_GOLD, 2) }
    ELSE IF /\ pl.club \notin Members(TOP_SILVER)
            /\ Deserves(pl, 5, 5)
            /\ Len(Available(pl.club)) > 0
    THEN { [league |-> "silver", offers |-> o] :
             o \in Sample(Available(pl.club),
                          IF Len(Available(pl.club)) < 2
                          THEN Len(Available(pl.club)) ELSE 2) }
    ELSE { [league |-> None, offers |-> << >>] }

\* the profiles: a top Silver club, another Silver club and a Gold club,
\* the counters on both sides of the thresholds
OfferPlayers ==
    { [NewPlayer(position, 0) EXCEPT !.club = club, !.personal_calendar = club,
                                     !.matches = matches, !.goals = goals,
                                     !.assists = assists, !.saves = saves,
                                     !.tackles = tackles] :
        position \in {Forward},
        club \in {TOP_SILVER[1], FNL_SILVER_CLUBS[4], MID_GOLD[1]},
        matches \in {9, 10}, goals \in {4, 5}, assists \in {4, 5},
        saves \in {4, 5, 39, 40}, tackles \in {4, 5, 24, 25} }

InitOffers ==
    /\ clubs = FNL_SILVER_CLUBS
    /\ calendar = MATCH_CALENDAR
    /\ calpc = "built"
    /\ pclub = FNL_SILVER_CLUBS[1]
    /\ pcal = create_player_calendar(calendar, pclub)
    /\ qround = 0
    /\ qopp = None
    /\ fsm_state = None
    /\ data = NoData
    /\ heap = << >>
    /\ player \in OfferPlayers
    /\ inflight = {}
    /\ last = [stale |-> FALSE, reply |-> None,
               arg |-> [club |-> None], result |-> [league |-> None]]
    /\ nActions = 0
    /\ starts = 0
    /\ counting = FALSE

GetTransferOffers ==
    \E offer \in get_transfer_offers(player) :
        /\ Called("get_transfer_offers", player, offer)
        /\ UNCHANGED <<qround, qopp>>

NextOffers == GetTransferOffers

SpecOffers == InitOffers /\ [][NextOffers]_vars

(***************************************************************************)
(* The season tests: is_season_active and is_winter_break applied to the   *)
(* date of a profile, for every month of the year.                         *)
(***************************************************************************)

\* is_season_active on a datetime: September to December or January to May
InSeason(dt) == (9 <= dt.m /\ dt.m <= 12) \/ (1 <= dt.m /\ dt.m <= 5)

\* is_season_active on a stored text: only DD.MM.YYYY is read, any other
\* text raises and counts as no season
is_season_active(text) ==
    strptime_dmy(text) # ValueError /\ InSeason(strptime_dmy(text))

\* the dates of the profiles: three days of every month of 2025 and 2026,
\* the older layout, and a text that is no date
MonthTexts ==
    { DateText(".", d, m, y) : d \in {1, 15, 28}, m \in 1..12, y \in {2025, 2026} }
    \cup { DateText("-", 2025, 12, 15), DateText("-", 2026, 4, 1),
           DateText(".", 31, 2, 2026) }

InitMonths ==
    /\ clubs = FNL_SILVER_CLUBS
    /\ calendar = MATCH_CALENDAR
    /\ calpc = "built"
    /\ pclub = FNL_SILVER_CLUBS[1]
    /\ pcal = create_player_calendar(calendar, pclub)
    /\ qround = 0
    /\ qopp = None
    /\ fsm_state = None
    /\ data = NoData
    /\ heap = << >>
    /\ player \in { [NewPlayer(Forward, 0) EXCEPT !.last_match_date = text] :
                      text \in MonthTexts }
    /\ inflight = {}
    /\ last = [stale |-> FALSE, reply |-> None,
               arg |-> [club |-> None], result |-> [value |-> FALSE]]
    /\ nActions = 0
    /\ starts = 0
    /\ counting = FALSE

IsSeasonActive ==
    /\ Called("is_season_active", player,
              [value |-> is_season_active(player.last_match_date)])
    /\ UNCHANGED <<qround, qopp>>

IsWinterBreak ==
    /\ Called("is_winter_break", player,
              [value |-> is_winter_break(player.last_match_date)])
    /\ UNCHANGED <<qround, qopp>>

NextMonths == IsSeasonActive \/ IsWinterBreak

SpecMonths == InitMonths /\ [][NextMonths]_vars

-----------------------------------------------------------------------------
(* Properties of the match session                                         *)

\* the step finishes the session r: its match_finished flag is raised
Finishing(r) ==
    /\ r \in DOMAIN heap
    /\ r \in DOMAIN heap'
    /\ ~heap[r].match_finished
    /\ heap'[r].match_finished

\* the store holds a session that is marked finished
StoredFinished ==
    /\ data.match_state # 0
    /\ heap[data.match_state].match_finished

\* C3: in every step the minute of a session does not decrease, and a
\* session whose minute has reached 90 keeps its minute, its score and its
\* statistics, whatever handlers overlap.
C3_MinuteMonotoneTerminal ==
    [][\A r \in DOMAIN heap \cap DOMAIN heap' :
          /\ heap'[r].minute >= heap[r].minute
          /\ heap[r].minute >= 90 =>
                /\ heap'[r].minute = heap[r].minute
                /\ heap'[r].your_goals = heap[r].your_goals
                /\ heap'[r].opponent_goals = heap[r].opponent_goals
                /\ heap'[r].stats = heap[r].stats]_vars

\* C4: no session accepts more than 50 user actions.
C4_WithinActionCap == nActions <= 50

\* C5: every run of finish_match (the steps that count a match) adds one
\* to exactly the counter that the score of the finished session names,
\* wins, losses or draws, and leaves the other two as they were.
C5_ExactlyOneResult ==
    [][player'.matches # player.matches =>
          LET your_goals == heap'[data'.match_state].your_goals
              opponent_goals == heap'[data'.match_state].opponent_goals
          IN  /\ heap'[data'.match_state].match_finished
              /\ player'.wins = player.wins
                    + (IF your_goals > opponent_goals THEN 1 ELSE 0)
              /\ player'.losses = player.losses
                    + (IF your_goals < opponent_goals THEN 1 ELSE 0)
              /\ player'.draws = player.draws
                    + (IF your_goals = opponent_goals THEN 1 ELSE 0)]_vars

\* a session has finished with a win, and the win is in the profile
C5_Witness ==
    /\ StoredFinished
    /\ heap[data.match_state].your_goals > heap[data.match_state].opponent_goals
    /\ player.wins >= 1
    /\ player.matches >= 1

\* C6: the profile changes only in a step that starts a session or that
\* finishes a session not finished before, so that a session is folded into
\* the profile once.
C6_FinishOncePerSession ==
    [][player' # player =>
          \/ starts' # starts
          \/ \E r \in DOMAIN heap \cap DOMAIN heap' : Finishing(r)]_vars

\* C7: the step that finishes a session leaves each cumulative counter at
\* its value before the step plus the session's counter.
C7_CountersAddUp ==
    [][\A r \in DOMAIN heap \cap DOMAIN heap' :
          Finishing(r) =>
              \A k \in StatKeys : player'[k] = player[k] + heap'[r].stats[k]]_vars

\* C8: a press of a button of an earlier message of the session is not
\* accepted and leaves every session as it was.
C8_StalePressRejected ==
    [][last'.stale => (last'.reply # "accepted" /\ heap' = heap)]_vars

\* C9: a callback handled while the stored session is marked finished is
\* answered "match finished" and changes neither the FSM state and data,
\* nor any session, nor the profile.
C9_FinishedRejects ==
    [][(StoredFinished /\ last'.reply # None) =>
          /\ last'.reply = "finished"
          /\ UNCHANGED <<fsm_state, data, heap, player>>]_vars

\* a callback has been answered "match finished" for a finished session
C9_Witness == StoredFinished /\ last.reply = "finished"

\* C10: no two suspended handlers work on the same session.
C10_OneInFlightPerSession ==
    \A a \in inflight : \A b \in inflight : a.ms = b.ms => a = b

\* the store holds a session that has started and has not ended
ActiveSession ==
    /\ data.match_state # 0
    /\ ~heap[data.match_state].match_finished
    /\ heap[data.match_state].minute < 90

\* C11: while a session is active no start-match request is accepted, by
\* the button or by the command: no step starts a session, and the stored
\* session stays the same dictionary.
C11_ActiveSessionBlocksStart ==
    [][ActiveSession => (starts' = starts /\ data'.match_state = data.match_state)]_vars

-----------------------------------------------------------------------------
(* Properties of the season clock and of the personal calendar             *)

\* the date a stored text stands for, in either layout
DateOf(text) ==
    IF strptime_dmy(text) # ValueError THEN strptime_dmy(text) ELSE strptime_ymd(text)

\* the step is a call of the function name
Calls(name) == nActions' = nActions + 1 /\ last'.reply = name

\* C12: when advance_virtual_date is called on a date outside the winter
\* break whose seventh day after lies inside it, the date stored is the
\* first of March after the break, a date outside the break.
C12_BreakIsSkipped ==
    [][(/\ Calls("advance_virtual_date")
        /\ DateOf(player.last_match_date) # ValueError
        /\ ~InWinterBreak(DateOf(player.last_match_date))
        /\ InWinterBreak(AddDays(DateOf(player.last_match_date), 7)))
       => /\ strptime_dmy(player'.last_match_date)
                = Date(DateOf(player.last_match_date).y + 1, 3, 1)
          /\ ~InWinterBreak(strptime_dmy(player'.last_match_date))]_vars

\* the date was advanced from 26 November, and the first of March is stored
C12_Witness ==
    /\ last.reply = "advance_virtual_date"
    /\ DateOf(last.arg.last_match_date) = Date(2025, 11, 26)
    /\ player.last_match_date = DateText(".", 1, 3, 2026)

\* the opponents the calendar made for the club lists for the round
Listed(club, round) ==
    { PersonalCalendar(club)[k].opponent :
        k \in RoundEntries(PersonalCalendar(club), round) }

\* the profile is in mid-season: a round of the season, the calendar of
\* its club intact, a date of the season whose seventh day after enters
\* neither the winter break nor the end of the season
MidSeason(pl) ==
    /\ pl.current_round \in 1..TotalRounds
    /\ pl.personal_calendar = pl.club
    /\ DateOf(pl.last_match_date) # ValueError
    /\ ~InWinterBreak(DateOf(pl.last_match_date))
    /\ ~InWinterBreak(AddDays(DateOf(pl.last_match_date), 7))
    /\ ~SeasonOver(DateOf(pl.last_match_date),
                   AddDays(DateOf(pl.last_match_date), 7))

\* C13: for a profile in mid-season at round r, a start request starts a
\* session against the opponent its calendar lists for round r, and the
\* finish of a session won adds one win and one match, moves the round to
\* r + 1 and the date seven days on.
C13_RoundPlayed ==
    [][MidSeason(player) =>
          /\ starts' = starts + 1 =>
                /\ data'.match_state # 0
                /\ Listed(player.club, player.current_round)
                      = {heap'[data'.match_state].opponent_team}
          /\ (/\ player'.matches # player.matches
              /\ heap'[data'.match_state].your_goals
                    > heap'[data'.match_state].opponent_goals) =>
                /\ player'.wins = player.wins + 1
                /\ player'.matches = player.matches + 1
                /\ player'.current_round = player.current_round + 1
                /\ strptime_dmy(player'.last_match_date)
                      = AddDays(DateOf(player.last_match_date), 7)]_vars

\* a session of round 5 was won on 6 October: round 6, 13 October
C13_Witness ==
    /\ StoredFinished
    /\ heap[data.match_state].your_goals > heap[data.match_state].opponent_goals
    /\ heap[data.match_state].current_round = 5
    /\ heap[data.match_state].opponent_team \in Listed(player.club, 5)
    /\ player.wins = 2
    /\ player.matches = 2
    /\ player.current_round = 6
    /\ player.last_match_date = DateText(".", 13, 10, 2025)

\* C14: a start request of a profile whose round pointer is past round 18
\* leaves the pointer at 1 and the calendar fresh, and starts a session of
\* round 1 against the opponent the calendar lists for round 1.
C14_RolloverOnStart ==
    [][(starts' = starts + 1 /\ player.current_round > TotalRounds) =>
          /\ player'.current_round = 1
          /\ player'.personal_calendar = player.club
          /\ data'.match_state # 0
          /\ heap'[data'.match_state].current_round = 1
          /\ heap'[data'.match_state].opponent_team # None
          /\ heap'[data'.match_state].opponent_team \in Listed(player.club, 1)]_vars

\* the calendar a personal_calendar column holds
StoredCalendar(column) ==
    IF column \in {NoCalendar, BadJson} THEN column ELSE PersonalCalendar(column)

\* C15: get_opponent_by_round returns None for every round past round 18,
\* whether the calendar column is valid, missing or unparseable.
C15_NoOpponentPastSeason ==
    [][(Calls("get_opponent_by_round") /\ qround' > TotalRounds)
          => qopp' = None]_vars

\* C16: after a transfer to another club the stored calendar is the one
\* made from the global calendar for the new club: its 18 fixtures, none
\* against the new club itself.
C16_TransferRemakesCalendar ==
    [][(Calls("transfer_callback") /\ player'.club # player.club) =>
          /\ StoredCalendar(player'.personal_calendar)
                = create_player_calendar(calendar, player'.club)
          /\ Len(StoredCalendar(player'.personal_calendar)) = TotalRounds
          /\ \A k \in 1..Len(StoredCalendar(player'.personal_calendar)) :
                StoredCalendar(player'.personal_calendar)[k].opponent
                    # player'.club]_vars

\* C17: once a request for a match has been handled (can_play_match or
\* get_opponent_by_round has run for it), the stored personal calendar is
\* a calendar and is not empty, for a Silver and for a Gold club.
C17_CalendarNeverEmpty ==
    [][Calls("get_opponent_by_round") =>
          /\ player'.personal_calendar \notin {NoCalendar, BadJson}
          /\ Len(StoredCalendar(player'.personal_calendar)) > 0]_vars

\* C18: can_play_match returns false, with a reason, exactly when the
\* stored date, read in either layout, is of December, January or
\* February; in every other case it returns true, also after it has
\* started a new season.
C18_RefusedOnlyInWinter ==
    [][Calls("can_play_match") =>
          IF /\ DateOf(player.last_match_date) # ValueError
             /\ DateOf(player.last_match_date).m \in {12, 1, 2}
          THEN ~last'.result.ok /\ last'.result.reason # ""
          ELSE last'.result.ok]_vars

\* a request on 10 January in the older layout was refused
C18_Witness ==
    /\ last.reply = "can_play_match"
    /\ last.arg.last_match_date = DateText("-", 2026, 1, 10)
    /\ ~last.result.ok
    /\ last.result.reason # ""

\* date a is earlier than date b
Before(a, b) ==
    \/ a.y < b.y
    \/ a.y = b.y /\ a.m < b.m
    \/ a.y = b.y /\ a.m = b.m /\ a.d < b.d

\* the step runs advance_virtual_date: a call of it, or a finish_match
RunsAdvance == Calls("advance_virtual_date") \/ player'.matches # player.matches

\* the date is before 25 May and its seventh day after is not
CrossesSeasonEnd(dt) ==
    /\ Before(dt, Date(dt.y, SEASON_END_MONTH, 25))
    /\ ~Before(AddDays(dt, DAYS_BETWEEN_MATCHES), Date(dt.y, SEASON_END_MONTH, 25))

\* C19: when advance_virtual_date runs on a date before 25 May whose
\* seventh day after is 25 May or later, the date stored is the first of
\* September of that year, later than the old date, the round pointer is 1
\* and the calendar is the fresh one of the club; so too when finish_match
\* runs it after adding one to the round pointer.
C19_SeasonEndRestarts ==
    [][(/\ RunsAdvance
        /\ DateOf(player.last_match_date) # ValueError
        /\ CrossesSeasonEnd(DateOf(player.last_match_date)))
       => /\ player'.last_match_date
                = DateText(".", 1, SEASON_START_MONTH, DateOf(player.last_match_date).y)
          /\ Before(DateOf(player.last_match_date), strptime_dmy(player'.last_match_date))
          /\ player'.current_round = 1
          /\ player'.personal_calendar = player.club]_vars

\* a session of round 18 begun on 20 May was finished: round 1, the first
\* of September
C19_Witness ==
    /\ StoredFinished
    /\ heap[data.match_state].current_round = 18
    /\ player.matches = 2
    /\ player.current_round = 1
    /\ player.last_match_date = DateText(".", 1, 9, 2026)

\* C20: for a date text that neither layout reads, a text with '.' or '-'
\* that is no date included, get_virtual_date returns the season's first
\* date and advance_virtual_date stores the season's first date plus seven
\* days.
C20_FallsBackToSeasonStart ==
    [][DateOf(player.last_match_date) = ValueError =>
          /\ Calls("get_virtual_date") => last'.result = SEASON_START_DATE
          /\ Calls("advance_virtual_date") =>
                player'.last_match_date
                    = strftime_dmy(AddDays(strptime_dmy(SEASON_START_DATE),
                                           DAYS_BETWEEN_MATCHES))]_vars

-----------------------------------------------------------------------------
(* Properties of the actions of a session                                  *)

\* the step handles a press of one of the buttons, and accepts it, while a
\* session is stored
Accepts(buttons) ==
    /\ data.match_state # 0
    /\ data.match_state \in DOMAIN heap'
    /\ "button" \in DOMAIN last'
    /\ last'.button \in buttons
    /\ last'.reply = "accepted"

\* the stored session before the step, and the same dictionary after it
Before_ms == heap[data.match_state]
After_ms == heap'[data.match_state]

\* the minute moves on once: by 8 to 12, and not past 90
AdvancesOnce ==
    \E inc \in 8..12 :
        After_ms.minute = IF Before_ms.minute + inc >= 90 THEN 90
                          ELSE Before_ms.minute + inc

\* neither the minute, the score nor the statistics of the session move
SessionKept ==
    /\ After_ms.minute = Before_ms.minute
    /\ After_ms.your_goals = Before_ms.your_goals
    /\ After_ms.opponent_goals = Before_ms.opponent_goals
    /\ After_ms.stats = Before_ms.stats

\* C21: an accepted action that opens no second choice moves the minute on
\* exactly once, by 8 to 12 and not past 90: a goalkeeper's first action
\* that is no save, a goalkeeper's second action, a tackle or block that
\* fails, a defender's second action, a forward's shot or pass, a dribble
\* that fails.
C21_ActionAdvancesMinute ==
    [][/\ Accepts({"rush", "left", "right"}) =>
             (After_ms.stats.saves # Before_ms.stats.saves \/ AdvancesOnce)
       /\ Accepts({"kick", "throw"}) => AdvancesOnce
       /\ Accepts({"tackle", "block"}) =>
             (After_ms.stats.tackles # Before_ms.stats.tackles \/ AdvancesOnce)
       /\ Accepts({"pass_left", "pass_right", "clear"}) => AdvancesOnce
       /\ Accepts({"shot", "pass", "shot_after_dribble", "pass_after_dribble"})
             => AdvancesOnce
       /\ Accepts({"dribble"}) => (SessionKept \/ AdvancesOnce)]_vars

Presses(buttons) ==
    /\ data.match_state # 0
    /\ data.match_state \in DOMAIN heap'
    /\ "button" \in DOMAIN last'
    /\ last'.button \in buttons

\* C23: a goalkeeper's second action (kick, throw) is processed only while
\* a save waits for it: a session starts with no save waiting, only a save
\* of a first action makes one wait, a second action pressed while none
\* waits is rejected and moves neither the minute, the score nor the
\* statistics, and a second action that is processed ends the wait, so
\* that a save allows one second action.
C23_OneSecondActionPerSave ==
    [][/\ starts' = starts + 1 => ~heap'[data'.match_state].waiting_second_action
       /\ (Presses({"kick", "throw"}) /\ ~Before_ms.waiting_second_action)
             => (last'.reply # "accepted" /\ SessionKept)
       /\ Accepts({"kick", "throw"})
             => (/\ Before_ms.waiting_second_action
                 /\ ~After_ms.waiting_second_action
                 /\ AdvancesOnce)
       /\ (/\ starts' = starts
           /\ data.match_state # 0
           /\ data.match_state \in DOMAIN heap'
           /\ After_ms.waiting_second_action
           /\ ~Before_ms.waiting_second_action)
             => (/\ Accepts({"rush", "left", "right"})
                 /\ After_ms.stats.saves = Before_ms.stats.saves + 1)]_vars

\* after a save and its second action, another second action was refused
C23_Witness ==
    /\ data.match_state # 0
    /\ "button" \in DOMAIN last
    /\ last.button \in {"kick", "throw"}
    /\ last.reply = "first_save"
    /\ heap[data.match_state].stats.saves = 1
    /\ heap[data.match_state].minute > 0
    /\ ~heap[data.match_state].waiting_second_action

-----------------------------------------------------------------------------
(* Properties of the opponent lookup                                       *)

\* the fixture of the global calendar that club c plays in round r
FixtureOf(c, r) == CHOOSE k \in FixturesInRound(calendar, c, r) : TRUE

\* the other club of the fixture k of the global calendar
Opposite(c, k) == IF calendar[k][1] = c THEN calendar[k][2] ELSE calendar[k][1]

\* C24: for the calendar of the ten Silver clubs and each of its clubs,
\* the personal calendar has one entry per round 1..18 in ascending order,
\* each with the other club of the club's fixture of the round and with
\* is_home true exactly when the club is the fixture's home side, and
\* get_opponent_by_round returns that other club for every round 1..18.
C24_PersonalCalendarFollowsFixtures ==
    (clubs = FNL_SILVER_CLUBS /\ pclub # "") =>
        /\ Len(pcal) = TotalRounds
        /\ \A r \in 1..TotalRounds :
              /\ pcal[r].round = r
              /\ Cardinality(FixturesInRound(calendar, pclub, r)) = 1
              /\ pcal[r].opponent = Opposite(pclub, FixtureOf(pclub, r))
              /\ pcal[r].is_home = (calendar[FixtureOf(pclub, r)][1] = pclub)
        /\ qround \in 1..TotalRounds =>
              qopp = Opposite(pclub, FixtureOf(pclub, qround))

\* the last Silver club's opponent of round 18 was looked up
C24_Witness ==
    /\ clubs = FNL_SILVER_CLUBS
    /\ pclub = FNL_SILVER_CLUBS[10]
    /\ qround = TotalRounds
    /\ qopp = Opposite(pclub, FixtureOf(pclub, TotalRounds))
    /\ pcal[TotalRounds].opponent = qopp

\* C25: when the calendar column is missing or unparseable, the opponent
\* returned for a round r in 1..18 to a player of a club of the global
\* calendar is the opponent of the club's first fixture of round r or
\* later, which is the club's opponent of round r.
C25_FallbackGivesRoundOpponent ==
    [][(/\ Calls("get_opponent_by_round")
        /\ player.personal_calendar \in {NoCalendar, BadJson}
        /\ qround' \in 1..TotalRounds
        /\ FixturesInRound(calendar, player.club, qround') # {})
       => qopp' = Opposite(player.club, FixtureOf(player.club, qround'))]_vars

-----------------------------------------------------------------------------
(* Properties of the end of a session                                      *)

\* C26: once finish_match and the handler that called it have returned, no
\* session is stored for the user: the store holds no match_state of a
\* finished match.
C26_SessionDiscarded ==
    data.match_state # 0 => ~heap[data.match_state].match_finished

-----------------------------------------------------------------------------
(* Properties of the transfer offers                                       *)

\* the profile is below every threshold of its club's tier
BelowThresholds(pl) ==
    /\ pl.goals < 5
    /\ pl.assists < 5
    /\ pl.saves < (IF pl.club \in Members(TOP_SILVER) THEN 40 ELSE 5)
    /\ pl.tackles < (IF pl.club \in Members(TOP_SILVER) THEN 25 ELSE 5)

\* C27: get_transfer_offers returns no league and no clubs for a profile
\* with fewer than 10 matches, and for one with none of goals, assists,
\* saves and tackles at the threshold of its club's tier.
C27_NoOfferBelowThresholds ==
    [][(/\ Calls("get_transfer_offers")
        /\ (player.matches < 10 \/ BelowThresholds(player)))
       => last'.result = [league |-> None, offers |-> << >>]]_vars

\* a top Silver player with 10 matches and 39 saves was offered nothing
C27_Witness ==
    /\ last.reply = "get_transfer_offers"
    /\ last.arg.club = TOP_SILVER[1]
    /\ last.arg.matches = 10
    /\ last.arg.saves = 39
    /\ last.arg.tackles = 24
    /\ last.result = [league |-> None, offers |-> << >>]

\* the pool of a league tier
Pool(league) == IF league = "gold" THEN Members(MID_GOLD) ELSE Members(TOP_SILVER)

\* C28: the clubs of an offer are pairwise different, none is the player's
\* club, and all are of the pool of the league returned, for a player of
\* a top Silver club, of another Silver club and of a Gold club.
C28_OffersDistinctFromPool ==
    [][(Calls("get_transfer_offers") /\ last'.result.league # None)
       => /\ Len(last'.result.offers) > 0
          /\ \A i \in 1..Len(last'.result.offers) :
                /\ last'.result.offers[i] # player.club
                /\ last'.result.offers[i] \in Pool(last'.result.league)
                /\ \A j \in 1..Len(last'.result.offers) :
                      i # j => last'.result.offers[i] # last'.result.offers[j]]_vars

\* a player of a Gold club was offered two top Silver clubs
C28_Witness ==
    /\ last.reply = "get_transfer_offers"
    /\ last.arg.club = MID_GOLD[1]
    /\ last.result.league = "silver"
    /\ Len(last.result.offers) = 2

-----------------------------------------------------------------------------
(* Properties of the season tests                                          *)

\* the month of the date lies in the window from September to May
InWindow(dt) == dt.m >= SEASON_START_MONTH \/ dt.m <= SEASON_END_MONTH

\* the month of the date is December, January or February
Suspended(dt) == dt.m \in {12, 1, 2}

\* C29: is_season_active answers true exactly for a date whose month is in
\* the window from September to May and not in the suspension from
\* December to February, so a date it accepts is never one is_winter_break
\* accepts.
C29_ActiveOutsideWinterBreak ==
    [][Calls("is_season_active")
       => /\ last'.result.value =
               (/\ DateOf(player.last_match_date) # ValueError
                /\ InWindow(DateOf(player.last_match_date))
                /\ ~Suspended(DateOf(player.last_match_date)))
          /\ ~(last'.result.value /\ is_winter_break(player.last_match_date))]_vars

-----------------------------------------------------------------------------
(* Properties of the stored date over a season                             *)

\* C30: the stored last_match_date never moves backward: whatever a match
\* request, a match finish or a season rollover stores, by round overflow or
\* by date, is on or after the date stored before it.
C30_DateNeverMovesBack ==
    [][(/\ DateOf(player.last_match_date) # ValueError
        /\ DateOf(player'.last_match_date) # ValueError)
       => ~Before(DateOf(player'.last_match_date), DateOf(player.last_match_date))]_vars

-----------------------------------------------------------------------------
(* Properties of the profile over finished matches                         *)

\* C31: between matches, when no handler is running, the wins, draws and
\* losses of the profile add up to its matches.
C31_ResultsAddUpToMatches ==
    inflight = {} => player.wins + player.draws + player.losses = player.matches

-----------------------------------------------------------------------------
(* Properties of the session that a match request starts                   *)

\* C32: the session that a match request starts, through the button or the
\* command, also when the request rolls the season over, has an opponent
\* that is a club of a league and is not the player's club.
C32_OpponentIsAnotherClub ==
    [][starts' = starts + 1 =>
          /\ heap'[data'.match_state].opponent_team
                \in Members(FNL_SILVER_CLUBS) \cup Members(FNL_GOLD_CLUBS)
          /\ heap'[data'.match_state].opponent_team # player'.club]_vars

-----------------------------------------------------------------------------
(* Properties of the statistics button                                     *)

\* the step is an answer of show_stats_callback
AnswersStats == last'.reply \in {"show_stats", "no_stats_in_match"}

\* the store holds an unfinished session that the play button started
ButtonSession == ActiveSession /\ data.match_in_progress /\ fsm_state # playing

\* C33: show_stats pressed while a session started by the play button is
\* active leaves the session as it is: the store and the session's
\* dictionary are unchanged.
C33_StatsKeepSession ==
    [][(AnswersStats /\ ButtonSession) =>
          /\ data' = data
          /\ heap' = heap
          /\ fsm_state' = fsm_state]_vars

-----------------------------------------------------------------------------
(* Properties of a profile over its seasons                                *)

\* C34: from registration on, with the date changed only by finished
\* matches and season rollovers, the stored date is never inside the winter
\* break and no match request is refused for it.
C34_NeverInWinterBreak ==
    /\ ~is_winter_break(player.last_match_date)
    /\ last.reply # "winter break"

\* the date has passed the break: the first of March was stored and a
\* match was requested on it
C34_Witness ==
    /\ player.last_match_date = DateText(".", 1, WINTER_BREAK_END, 2026)
    /\ last.reply = "started"


\* C35: the round pointer of the profile stays within 1..19, and a session
\* moves it once: after the session is marked finished, no step other
\* than a new match request changes the pointer.
C35_RoundPointerInRange ==
    [][/\ player'.current_round \in 1..(TotalRounds + 1)
       /\ (StoredFinished /\ starts' = starts)
             => player'.current_round = player.current_round]_vars

-----------------------------------------------------------------------------
(* Properties of the score of a session                                    *)

\* C36: with one handler at a time, in every session the player's goals
\* and assists together never exceed the goals of the team, and no step
\* lowers the goals of the team or of the opponent.
C36_PersonalWithinTeamGoals ==
    [][\A r \in DOMAIN heap' :
          /\ heap'[r].stats.goals + heap'[r].stats.assists <= heap'[r].your_goals
          /\ r \in DOMAIN heap =>
                /\ heap'[r].your_goals >= heap[r].your_goals
                /\ heap'[r].opponent_goals >= heap[r].opponent_goals]_vars

\* a session in which the player scored or assisted and the opponent scored
C36_Witness ==
    /\ data.match_state # 0
    /\ heap[data.match_state].stats.goals + heap[data.match_state].stats.assists > 0
    /\ heap[data.match_state].opponent_goals > 0

-----------------------------------------------------------------------------
(* Properties of the in-progress flags                                     *)

-----------------------------------------------------------------------------
(* Properties of the start after a finished session                        *)

\* C38: while the store holds a finished session, neither mark of a
\* running match is left, the key match_in_progress that the button tests
\* or the FSM state that /play tests, and can_play_match agrees: the next
\* match request is accepted through either entry point.
C38_StartAcceptedAfterFinish ==
    StoredFinished =>
        /\ ~data.match_in_progress
        /\ fsm_state # playing
        /\ can_play_match(player, player).ok

\* after a finished session a new one was started by /play
C38_Witness ==
    /\ player.matches = 1
    /\ starts = MaxRequests
    /\ ActiveSession
    /\ heap[data.match_state].minute = 0
    /\ fsm_state = playing

====
